---------------------------- MODULE Spec2Model ----------------------------
(***************************************************************************)
(* Positioning systems: k-best fingerprint matching (kbest.py), range      *)
(* multilateration (nlateration.py) and the page-transition counter of the *)
(* web demo (website.py).                                                  *)
(*                                                                         *)
(* Numbers.  The Python code computes in IEEE doubles.  Here a number is a *)
(* record [kind, n, d]: a finite rational n/d in lowest terms ("fin"), an  *)
(* infinity of sign n ("inf"), a NaN ("nan") or Python's None ("none").    *)
(* + - * / are exact on finite values and follow IEEE 754 on the special   *)
(* values; np.sqrt is rounded down to a multiple of 1/Scale.               *)
(***************************************************************************)
EXTENDS Integers, Sequences, FiniteSets

VARIABLES
    \* kbest.py
    reference_vectors,  \* catalogue: sequence of RSS vectors (integers)
    mp_vector,          \* measured RSS vector
    k,                  \* number of cells to select
    cell_positions,     \* sequence of 2D cell positions
    best_indices,       \* argument of compute_barycentric_position
    metrics,            \* argument of compute_barycentric_position
    weights,            \* local of compute_barycentric_position
    kb_call,            \* the kbest.py function that was called
    kb_ret,             \* the outcome of the call
    \* nlateration.py
    access_points,      \* sequence of AccessPoint [x, y, z, radius]
    position,           \* argument of calculate_error
    error,              \* what calculate_error returned
    evals,              \* calls of calculate_error made so far
    tri_pc,             \* position of the trilaterate call
    tri_x,              \* minimize: the current iterate
    tri_iter,           \* minimize: iterations done
    tri_result,         \* minimize: the OptimizeResult [x, success]
    tri_ret,            \* the outcome of trilaterate
    \* website.py
    page_transitions,   \* counter per "previous -> current" key
    session,            \* per browser session: previous_page (or None)
    requests,           \* per session: tracked requests made
    last_req            \* the request handled last

kbVars  == <<reference_vectors, mp_vector, k, cell_positions, best_indices,
             metrics, weights, kb_call, kb_ret>>
latVars == <<access_points, position, error, evals, tri_pc, tri_x, tri_iter,
             tri_result, tri_ret>>
webVars == <<page_transitions, session, requests, last_req>>
vars    == <<kbVars, latVars, webVars>>

---------------------------------------------------------------------------
(* Bounds of the model *)

\* np.sqrt is kept to 1/Scale
Scale == 10
\* largest catalogue drawn
MaxCells == 3
\* longest selection handed to compute_barycentric_position
MaxSel == 2
\* most access points in a call
MaxAnchors == 3
\* iteration cap of the minimizer
MaxIter == 2
\* browser sessions
NumSessions == 2
\* requests handled
MaxRequests == 4

---------------------------------------------------------------------------
(* Numbers *)

Abs(a) == IF a < 0 THEN -a ELSE a

RECURSIVE Gcd(_, _)
Gcd(a, b) == IF b = 0 THEN a ELSE Gcd(b, a % b)

Fin(n, d) ==
    LET g == Gcd(Abs(n), Abs(d))
        s == IF d < 0 THEN -1 ELSE 1
    IN  [kind |-> "fin", n |-> (s * n) \div g, d |-> (s * d) \div g]

Num(i) == [kind |-> "fin", n |-> i, d |-> 1]
Inf(s) == [kind |-> "inf", n |-> s, d |-> 1]
NaN    == [kind |-> "nan", n |-> 0, d |-> 1]
Zero   == Num(0)
One    == Num(1)

IsFinite(a) == a.kind = "fin"
IsNaN(a)    == a.kind = "nan"
Sign(a)     == IF a.n > 0 THEN 1 ELSE IF a.n < 0 THEN -1 ELSE 0

RAdd(a, b) ==
    IF IsNaN(a) \/ IsNaN(b) THEN NaN
    ELSE IF a.kind = "inf" /\ b.kind = "inf" THEN (IF a.n = b.n THEN a ELSE NaN)
    ELSE IF a.kind = "inf" THEN a
    ELSE IF b.kind = "inf" THEN b
    ELSE LET g == Gcd(a.d, b.d)
         IN  Fin(a.n * (b.d \div g) + b.n * (a.d \div g), (a.d \div g) * b.d)

RNeg(a) == IF IsNaN(a) THEN NaN ELSE [a EXCEPT !.n = -a.n]

RSub(a, b) == RAdd(a, RNeg(b))

RMul(a, b) ==
    IF IsNaN(a) \/ IsNaN(b) THEN NaN
    ELSE IF a.kind = "inf" \/ b.kind = "inf"
         THEN (IF Sign(a) * Sign(b) = 0 THEN NaN ELSE Inf(Sign(a) * Sign(b)))
    ELSE LET g == Gcd(Abs(a.n), b.d)
             h == Gcd(Abs(b.n), a.d)
         IN  Fin((a.n \div g) * (b.n \div h), (a.d \div h) * (b.d \div g))

\* numpy true division: x/0 is +-inf (0/0 is nan) with a warning, no exception
RDiv(a, b) ==
    IF IsNaN(a) \/ IsNaN(b) THEN NaN
    ELSE IF a.kind = "inf" /\ b.kind = "inf" THEN NaN
    ELSE IF a.kind = "inf" THEN Inf(a.n * (IF b.n < 0 THEN -1 ELSE 1))
    ELSE IF b.kind = "inf" THEN Zero
    ELSE IF b.n = 0 THEN (IF a.n = 0 THEN NaN ELSE Inf(Sign(a)))
    ELSE Fin(a.n * b.d, a.d * b.n)

\* a < b, false when either is a NaN
RLess(a, b) ==
    /\ ~IsNaN(a) /\ ~IsNaN(b)
    /\ IF a.kind = "inf" THEN a.n < 0 /\ ~(b.kind = "inf" /\ b.n < 0)
       ELSE IF b.kind = "inf" THEN b.n > 0
       ELSE LET g == Gcd(a.d, b.d)
            IN  a.n * (b.d \div g) < b.n * (a.d \div g)

RLeq(a, b) == ~IsNaN(a) /\ ~IsNaN(b) /\ ~RLess(b, a)

RECURSIVE ISqrtIn(_, _, _)
ISqrtIn(lo, hi, m) ==
    IF lo = hi THEN lo
    ELSE LET mid == (lo + hi + 1) \div 2
         IN  IF mid * mid <= m THEN ISqrtIn(mid, hi, m) ELSE ISqrtIn(lo, mid - 1, m)

\* largest r with r*r <= m
ISqrt(m) == ISqrtIn(0, IF m < 46340 THEN m ELSE 46340, m)

\* np.sqrt of a finite a >= 0
Sqrt(a) == Fin(ISqrt((a.n * Scale * Scale) \div a.d), Scale)

RECURSIVE RSum(_)
RSum(s) == IF s = <<>> THEN Zero ELSE RAdd(Head(s), RSum(Tail(s)))

Min(a, b) == IF a < b THEN a ELSE b

---------------------------------------------------------------------------
(* kbest.py *)

None == [kind |-> "none", n |-> 0, d |-> 1]

\* the module-level data of kbest.py
ExampleReferenceVectors ==
    << <<50, 60, 70>>, <<55, 65, 75>>, <<40, 50, 60>>, <<45, 55, 65>>, <<30, 40, 50>> >>
ExampleMpVector == <<48, 58, 68>>
ExampleCellPositions == << <<0, 0>>, <<1, 0>>, <<0, 1>>, <<1, 1>>, <<2, 2>> >>

\* np.sum((v - w) ** 2) of two integer vectors of one length
RECURSIVE SumSq(_, _)
SumSq(v, w) ==
    IF v = <<>> THEN 0
    ELSE (Head(v) - Head(w)) * (Head(v) - Head(w)) + SumSq(Tail(v), Tail(w))

\* A call's outcome: the exception that reaches the caller ("none": every
\* body is wrapped in try/except Exception), the value returned, the lines printed.
Outcome(val, lines) == [raised |-> "none", ret |-> val, out |-> lines]

compute_similarity(rv, mp) ==
    IF Len(rv[1]) # Len(mp)
    THEN Outcome(<<>>, <<"Error in compute_similarity">>)
    ELSE Outcome([i \in 1..Len(rv) |-> Sqrt(Num(SumSq(rv[i], mp)))], <<>>)

\* The orders np.argsort(m) may return: kind defaults to 'quicksort', which is
\* not stable, so entries of equal value come in any order.  Indices are 0-based.
argsort(m) ==
    { p \in [1..Len(m) -> 0..(Len(m) - 1)] :
        /\ \A i, j \in 1..Len(m) : i # j => p[i] # p[j]
        /\ \A i \in 1..(Len(m) - 1) : RLeq(m[p[i] + 1], m[p[i + 1] + 1]) }

\* mutant: the k entries at the end of the order are taken
find_best_cells_last(rv, mp, kk, order) ==
    LET m == compute_similarity(rv, mp).ret
        best == SubSeq(order, Len(order) - Min(kk, Len(order)) + 1, Len(order))
    IN  Outcome(<< best, [i \in 1..Len(best) |-> m[best[i] + 1]] >>, <<>>)

\* find_best_cells, given the order np.argsort returned
find_best_cells(rv, mp, kk, order) ==
    LET sim == compute_similarity(rv, mp)
        m   == sim.ret
        best == SubSeq(order, 1, Min(kk, Len(order)))
    IN  IF ~(kk > 0)
        THEN Outcome(<< <<>>, <<>> >>, <<"Error in find_best_cells">>)
        ELSE IF ~(Len(m) > 0)
        THEN Outcome(<< <<>>, <<>> >>, sim.out \o <<"Error in find_best_cells">>)
        ELSE Outcome(<< best, [i \in 1..Len(best) |-> m[best[i] + 1]] >>, <<>>)

\* cell_positions[i] for a numpy index i of an array of n rows (negative wraps)
RowOf(i, n) == IF i < 0 THEN i + n + 1 ELSE i + 1

\* mutant: the weights are not normalized
UnnormalizedWeights(ms) == [i \in 1..Len(ms) |-> RDiv(One, ms[i])]

\* weights = 1 / metrics; weights /= np.sum(weights)
NormalizedWeights(ms) ==
    LET w == [i \in 1..Len(ms) |-> RDiv(One, ms[i])]
        total == RSum(w)
    IN  [i \in 1..Len(ms) |-> RDiv(w[i], total)]

\* np.sum(cell_positions[best_indices] * weights[:, np.newaxis], axis=0)
WeightedSum(cp, bi, w) ==
    [c \in 1..Len(cp[1]) |->
        RSum([i \in 1..Len(bi) |-> RMul(Num(cp[RowOf(bi[i], Len(cp))][c]), w[i])])]

\* compute_barycentric_position: [ret, out, weights]; best_indices holds integers
compute_barycentric_position(cp, bi, ms) ==
    IF Len(bi) # Len(ms) \/ \E i \in 1..Len(bi) : bi[i] >= Len(cp) \/ bi[i] < -Len(cp)
    THEN [raised |-> "none", ret |-> <<None, None>>,
          out |-> <<"Error in compute_barycentric_position">>,
          weights |-> IF Len(bi) # Len(ms) THEN <<>> ELSE NormalizedWeights(ms)]
    ELSE [raised |-> "none", ret |-> WeightedSum(cp, bi, NormalizedWeights(ms)),
          out |-> <<>>, weights |-> NormalizedWeights(ms)]

\* inputs drawn for the ranking functions
RssValues == {0, 1}
Dims == {1, 2}
Catalogues == UNION { [1..n -> [1..D -> RssValues]] : n \in 1..MaxCells, D \in Dims }
MpVectors == UNION { [1..D -> RssValues] : D \in Dims }

\* inputs drawn for compute_barycentric_position
CellPositionChoices == { ExampleCellPositions, << <<-2, 3>>, <<4, -1>> >> }
MetricValues == { Zero, Fin(1, 2), Num(3), Num(100) }
IndexSeqs(n) == UNION { [1..l -> (-1)..n] : l \in 0..MaxSel }
MetricSeqs == UNION { [1..l -> MetricValues] : l \in 0..MaxSel }

NoOutcome == Outcome(<<>>, <<>>)

KbIdle ==
    /\ reference_vectors = ExampleReferenceVectors
    /\ mp_vector = ExampleMpVector
    /\ k = 4
    /\ cell_positions = ExampleCellPositions
    /\ best_indices = <<>>
    /\ metrics = <<>>
    /\ weights = <<>>
    /\ kb_call = "none"
    /\ kb_ret = NoOutcome

\* the arguments of a compute_similarity or find_best_cells call
KbRankInit ==
    /\ \/ /\ reference_vectors \in Catalogues
          /\ mp_vector \in MpVectors
          /\ k \in (-1)..(MaxCells + 1)
       \/ /\ reference_vectors = ExampleReferenceVectors
          /\ mp_vector = ExampleMpVector
          /\ k \in {4}
    /\ cell_positions = ExampleCellPositions
    /\ best_indices = <<>>
    /\ metrics = <<>>
    /\ weights = <<>>
    /\ kb_call = "none"
    /\ kb_ret = NoOutcome

\* the arguments of a compute_barycentric_position call
KbBaryInit ==
    /\ reference_vectors = ExampleReferenceVectors
    /\ mp_vector = ExampleMpVector
    /\ k = 4
    /\ cell_positions \in CellPositionChoices
    /\ best_indices \in IndexSeqs(Len(cell_positions))
    /\ metrics \in MetricSeqs
    /\ weights = <<>>
    /\ kb_call = "none"
    /\ kb_ret = NoOutcome

ComputeSimilarity ==
    /\ kb_call = "none"
    /\ kb_call' = "compute_similarity"
    /\ kb_ret' = compute_similarity(reference_vectors, mp_vector)
    /\ UNCHANGED <<reference_vectors, mp_vector, k, cell_positions, best_indices,
                   metrics, weights>>
    /\ UNCHANGED <<latVars, webVars>>

FindBestCells ==
    /\ kb_call = "none"
    /\ kb_call' = "find_best_cells"
    /\ \E order \in argsort(compute_similarity(reference_vectors, mp_vector).ret) :
          kb_ret' = find_best_cells(reference_vectors, mp_vector, k, order)
    /\ UNCHANGED <<reference_vectors, mp_vector, k, cell_positions, best_indices,
                   metrics, weights>>
    /\ UNCHANGED <<latVars, webVars>>

ComputeBarycentricPosition ==
    /\ kb_call = "none"
    /\ kb_call' = "compute_barycentric_position"
    /\ LET o == compute_barycentric_position(cell_positions, best_indices, metrics)
       IN  /\ kb_ret' = Outcome(o.ret, o.out)
           /\ weights' = o.weights
    /\ UNCHANGED <<reference_vectors, mp_vector, k, cell_positions, best_indices, metrics>>
    /\ UNCHANGED <<latVars, webVars>>

\* the script: find_best_cells on the module's data with k=4, then the position
Main ==
    /\ kb_call = "none"
    /\ reference_vectors = ExampleReferenceVectors
    /\ mp_vector = ExampleMpVector
    /\ cell_positions = ExampleCellPositions
    /\ best_indices = <<>> /\ metrics = <<>>
    /\ kb_call' = "main"
    /\ \E order \in argsort(compute_similarity(reference_vectors, mp_vector).ret) :
          LET best == find_best_cells(reference_vectors, mp_vector, 4, order)
              o == compute_barycentric_position(cell_positions, best.ret[1], best.ret[2])
          IN  /\ best_indices' = best.ret[1]
              /\ metrics' = best.ret[2]
              /\ weights' = o.weights
              /\ kb_ret' = Outcome(o.ret, best.out \o o.out)
    /\ UNCHANGED <<reference_vectors, mp_vector, k, cell_positions>>
    /\ UNCHANGED <<latVars, webVars>>

---------------------------------------------------------------------------
(* nlateration.py *)

\* AccessPoint(id, x, y, z, radius, color): __init__ asserts radius > 0
AccessPoint(x, y, z, radius) == [x |-> x, y |-> y, z |-> z, radius |-> radius]

\* the access points of the script
ExampleAccessPoints ==
    << AccessPoint(Fin(1, 2), Fin(1, 2), Fin(1, 2), Num(3)),
       AccessPoint(Num(4), Num(0), Num(0), Num(2)),
       AccessPoint(Num(4), Num(5), Num(5), Fin(42, 10)),
       AccessPoint(Num(3), Num(3), Num(3), Fin(5, 2)) >>

\* access points drawn: three on one line, all in the plane z = 0, one off it
AnchorPool ==
    { AccessPoint(Num(0), Num(0), Num(0), Num(5)),
      AccessPoint(Num(3), Num(0), Num(0), Num(4)),
      AccessPoint(Num(6), Num(8), Num(0), Num(5)),
      AccessPoint(Num(1), Num(1), Num(1), Fin(1, 2)) }

\* candidate positions: arguments of calculate_error and iterates of the minimizer
Candidates == { <<0, 0, 0>>, <<3, 4, 0>>, <<1, 1, 1>> }
\* a position that is no [x, y, z]
Malformed == { <<3, 4>> }

Sq(a) == RMul(a, a)

\* np.sqrt((x - ap.x)**2 + (y - ap.y)**2 + (z - ap.z)**2)
Distance(pos, ap) ==
    Sqrt(RAdd(RAdd(Sq(RSub(Num(pos[1]), ap.x)), Sq(RSub(Num(pos[2]), ap.y))),
              Sq(RSub(Num(pos[3]), ap.z))))

\* mutant: the difference is not squared
ErrorTermNotSquared(pos, ap) == RSub(Distance(pos, ap), ap.radius)

\* the term one access point adds to the error
ErrorTerm(pos, ap) == Sq(RSub(Distance(pos, ap), ap.radius))

\* the loop of calculate_error over access_points[i..], error accumulated so far
RECURSIVE ErrorLoop(_, _, _, _)
ErrorLoop(pos, aps, i, err) ==
    IF i > Len(aps) THEN err
    ELSE ErrorLoop(pos, aps, i + 1, RAdd(err, ErrorTerm(pos, aps[i])))

calculate_error(pos, aps) ==
    IF Len(pos) # 3
    THEN Outcome(Inf(1), <<"Error in error calculation">>)
    ELSE Outcome(ErrorLoop(pos, aps, 1, Zero), <<>>)

\* what trilaterate hands back: None, or the array of a position
PyNone == [type |-> "NoneType", v |-> <<>>]
PyArray(v) == [type |-> "ndarray", v |-> v]

\* before minimize has returned there is no OptimizeResult
NoResult == [x |-> <<>>, success |-> "unset"]

\* the outcome of trilaterate: no convergence status is part of what it returns
TriOutcome(val, lines) == [raised |-> "none", ret |-> val, status |-> "none", out |-> lines]

LatInit ==
    /\ \/ access_points \in UNION { [1..n -> AnchorPool] : n \in 0..MaxAnchors }
       \/ access_points = ExampleAccessPoints
    /\ position = <<0, 0, 0>>
    /\ error = None
    /\ evals = 0
    /\ tri_pc = "idle"
    /\ tri_x = <<0, 0, 0>>
    /\ tri_iter = 0
    /\ tri_result = NoResult
    /\ tri_ret = TriOutcome(PyNone, <<>>)

\* one evaluation of the objective at pos
Evaluate(pos) ==
    /\ position' = pos
    /\ error' = calculate_error(pos, access_points).ret
    /\ evals' = evals + 1

\* a direct call of calculate_error, before or after a trilaterate call; the
\* evaluations counted are capped so that one more fits after the minimizer's
CalculateError ==
    /\ tri_pc \in {"idle", "done"}
    /\ evals < MaxIter + 2
    /\ \E pos \in Candidates \cup Malformed : Evaluate(pos)
    /\ UNCHANGED <<access_points, tri_pc, tri_x, tri_iter, tri_result, tri_ret>>
    /\ UNCHANGED <<kbVars, webVars>>

\* trilaterate up to the first evaluation of the objective by minimize
TrilaterateCall ==
    /\ tri_pc = "idle"
    /\ IF ~(Len(access_points) >= 3)
       THEN /\ tri_pc' = "done"
            /\ tri_ret' = TriOutcome(PyNone, <<"Input error in trilaterate">>)
            /\ UNCHANGED <<position, error, evals, tri_x, tri_iter, tri_result>>
       ELSE /\ tri_pc' = "minimize"
            /\ tri_x' = <<0, 0, 0>>
            /\ tri_iter' = 0
            /\ Evaluate(<<0, 0, 0>>)
            /\ UNCHANGED <<tri_result, tri_ret>>
    /\ UNCHANGED access_points
    /\ UNCHANGED <<kbVars, webVars>>

\* one iteration of scipy.optimize.minimize: a step to a candidate of smaller error
MinimizeIterate ==
    /\ tri_pc = "minimize"
    /\ tri_iter < MaxIter
    /\ \E pos \in Candidates :
          /\ RLess(calculate_error(pos, access_points).ret,
                   calculate_error(tri_x, access_points).ret)
          /\ tri_x' = pos
          /\ Evaluate(pos)
    /\ tri_iter' = tri_iter + 1
    /\ UNCHANGED <<access_points, tri_pc, tri_result, tri_ret>>
    /\ UNCHANGED <<kbVars, webVars>>

\* what trilaterate does with the OptimizeResult
TrilaterateReturn(result) == TriOutcome(PyArray(result.x), <<>>)

\* minimize stops: the tolerance is met (success), or it is not and the
\* iterations are used up or precision is lost; trilaterate returns result.x
MinimizeStop ==
    /\ tri_pc = "minimize"
    /\ \E success \in BOOLEAN :
          /\ tri_result' = [x |-> tri_x, success |-> success]
          /\ tri_ret' = TrilaterateReturn([x |-> tri_x, success |-> success])
    /\ tri_pc' = "done"
    /\ UNCHANGED <<access_points, position, error, evals, tri_x, tri_iter>>
    /\ UNCHANGED <<kbVars, webVars>>

---------------------------------------------------------------------------
(* website.py *)

Pages == { "Home", "Smart Home Automation App - ECOM",
           "Hospital Network Deployment - AKAT", "Quit" }
Sessions == 1..NumSessions
NoPage == ""

\* f"{previous_page} -> {current_page}"
TransitionKey(previous_page, current_page) == previous_page \o " -> " \o current_page

\* page_transitions[key] of the defaultdict(int)
Count(pt, key) == IF key \in DOMAIN pt THEN pt[key] ELSE 0

\* page_transitions[key] += 1
Increment(pt, key) ==
    [q \in DOMAIN pt \cup {key} |-> IF q = key THEN Count(pt, key) + 1 ELSE pt[q]]

WebInit ==
    /\ page_transitions = <<>>
    /\ session = [s \in Sessions |-> NoPage]
    /\ requests = [s \in Sessions |-> 0]
    /\ last_req = "none"

RECURSIVE SumOver(_, _)
SumOver(f, S) ==
    IF S = {} THEN 0
    ELSE LET e == CHOOSE e \in S : TRUE IN f[e] + SumOver(f, S \ {e})

\* mutant: the counter is incremented whether or not there is a previous page
track_page_transition_unguarded(s, current_page) ==
    /\ page_transitions' =
          Increment(page_transitions, TransitionKey(session[s], current_page))
    /\ session' = [session EXCEPT ![s] = current_page]

track_page_transition(s, current_page) ==
    /\ page_transitions' =
          IF session[s] # NoPage
          THEN Increment(page_transitions, TransitionKey(session[s], current_page))
          ELSE page_transitions
    /\ session' = [session EXCEPT ![s] = current_page]

\* bookkeeping of a request of session s for a tracked route
Tracked(s, route) ==
    /\ SumOver(requests, Sessions) < MaxRequests
    /\ requests' = [requests EXCEPT ![s] = @ + 1]
    /\ last_req' = route
    /\ UNCHANGED <<kbVars, latVars>>

home ==
    \E s \in Sessions :
       /\ track_page_transition(s, "Home")
       /\ Tracked(s, "/")

subject1 ==
    \E s \in Sessions :
       /\ track_page_transition(s, "Smart Home Automation App - ECOM")
       /\ Tracked(s, "/subject1")

subject2 ==
    \E s \in Sessions :
       /\ track_page_transition(s, "Hospital Network Deployment - AKAT")
       /\ Tracked(s, "/subject2")

quit_page ==
    \E s \in Sessions :
       /\ track_page_transition(s, "Quit")
       /\ Tracked(s, "/quit")

\* sum(page_transitions.values()), rendered; nothing is written
stats ==
    /\ last_req' = "/stats"
    /\ UNCHANGED <<page_transitions, session, requests>>
    /\ UNCHANGED <<kbVars, latVars>>

---------------------------------------------------------------------------
(* Specifications *)

LatIdle ==
    /\ access_points = <<>>
    /\ position = <<0, 0, 0>>
    /\ error = None
    /\ evals = 0
    /\ tri_pc = "idle"
    /\ tri_x = <<0, 0, 0>>
    /\ tri_iter = 0
    /\ tri_result = NoResult
    /\ tri_ret = TriOutcome(PyNone, <<>>)

WebIdle ==
    /\ page_transitions = <<>>
    /\ session = <<>>
    /\ requests = <<>>
    /\ last_req = "none"

\* compute_similarity and find_best_cells
Init == KbRankInit /\ LatIdle /\ WebIdle
Next == ComputeSimilarity \/ FindBestCells
Spec == Init /\ [][Next]_vars

\* compute_barycentric_position and the script
InitBary == KbBaryInit /\ LatIdle /\ WebIdle
NextBary == ComputeBarycentricPosition \/ Main
SpecBary == InitBary /\ [][NextBary]_vars

\* calculate_error and trilaterate
InitLat == KbIdle /\ LatInit /\ WebIdle
NextLat == CalculateError \/ TrilaterateCall \/ MinimizeIterate \/ MinimizeStop
SpecLat == InitLat /\ [][NextLat]_vars

\* the web demo: requests of any session in any order, each handled in one step
InitWeb == KbIdle /\ LatIdle /\ WebInit
NextWeb == home \/ subject1 \/ subject2 \/ quit_page \/ stats
SpecWeb == InitWeb /\ [][NextWeb]_vars

---------------------------------------------------------------------------
(* kbest.py: properties *)

Range(f) == { f[i] : i \in DOMAIN f }

DimsMatch == Len(reference_vectors[1]) = Len(mp_vector)

\* find_best_cells returned a selection
Selected == kb_call = "find_best_cells" /\ kb_ret.ret[1] # <<>>

\* C1: with matching dimensions and 1 <= k <= N, find_best_cells returns exactly
\* k distinct catalogue indices in ascending order of distance, no entry left out
\* is closer than an entry selected, and the i-th distance returned is
\* compute_similarity's value at the i-th index returned.
C1_KBestSelection ==
    (kb_call = "find_best_cells" /\ DimsMatch /\ 1 <= k /\ k <= Len(reference_vectors))
    => LET idx == kb_ret.ret[1]
           dst == kb_ret.ret[2]
           sim == compute_similarity(reference_vectors, mp_vector).ret
           N   == Len(reference_vectors)
       IN  /\ kb_ret.raised = "none"
           /\ Len(idx) = k /\ Len(dst) = k
           /\ \A i \in 1..k : idx[i] \in 0..(N - 1)
           /\ \A i, j \in 1..k : i # j => idx[i] # idx[j]
           /\ \A i \in 1..(k - 1) : RLeq(dst[i], dst[i + 1])
           /\ \A i \in 1..k : \A j \in (0..(N - 1)) \ Range(idx) :
                 ~RLess(sim[j + 1], sim[idx[i] + 1])
           /\ \A i \in 1..k : dst[i] = sim[idx[i] + 1]

\* a selection of 1 < k < N cells among which distances differ
C1_Witness ==
    /\ kb_call = "find_best_cells" /\ DimsMatch
    /\ 1 < k /\ k < Len(reference_vectors)
    /\ Len(kb_ret.ret[1]) = k
    /\ RLess(kb_ret.ret[2][1], kb_ret.ret[2][k])

\* C2: compute_similarity on reference vectors whose dimension differs from the
\* measurement's raises DimensionMismatch to the caller and returns nothing.
C2_MismatchRaises ==
    (kb_call = "compute_similarity" /\ ~DimsMatch)
    => kb_ret.raised = "DimensionMismatch"

\* C7: find_best_cells with k <= 0 signals InvalidParameter to the caller
\* instead of returning a pair of empty sequences.
C7_NonPositiveKRaises ==
    (kb_call = "find_best_cells" /\ k <= 0)
    => (kb_ret.raised = "InvalidParameter" /\ kb_ret.ret # << <<>>, <<>> >>)

\* C9: entries at equal distance are ordered, and selected at the k-th
\* boundary, by catalogue order: among the entries returned the smaller index
\* comes first, and no entry is selected in place of an equally distant entry
\* of smaller index.
C9_StableTieBreak ==
    Selected
    => LET idx == kb_ret.ret[1]
           dst == kb_ret.ret[2]
           sim == compute_similarity(reference_vectors, mp_vector).ret
           N   == Len(reference_vectors)
       IN  /\ \A i, j \in 1..Len(idx) : (i < j /\ dst[i] = dst[j]) => idx[i] < idx[j]
           /\ \A i \in 1..Len(idx) : \A j \in (0..(N - 1)) \ Range(idx) :
                 sim[j + 1] = sim[idx[i] + 1] => idx[i] < j

\* compute_barycentric_position ran on a selection of valid indices
BaryCalled ==
    /\ kb_call \in {"compute_barycentric_position", "main"}
    /\ Len(best_indices) = Len(metrics)
    /\ Len(best_indices) >= 1
    /\ \A i \in 1..Len(best_indices) :
          best_indices[i] < Len(cell_positions) /\ best_indices[i] >= -Len(cell_positions)

AllPositive == \A i \in 1..Len(metrics) : RLess(Zero, metrics[i])
SomeZero == \E i \in 1..Len(metrics) : metrics[i] = Zero

SelectedRows == { RowOf(best_indices[i], Len(cell_positions)) : i \in 1..Len(best_indices) }

\* C4: with one or more selected distances exactly zero the call yields no
\* division fault and a finite position: no coordinate is a NaN, an infinity
\* or None.
C4_ZeroDistanceFinite ==
    (BaryCalled /\ SomeZero)
    => /\ kb_ret.raised = "none"
       /\ \A c \in 1..Len(kb_ret.ret) : IsFinite(kb_ret.ret[c])

---------------------------------------------------------------------------
(* nlateration.py: properties *)

TriDone == tri_pc = "done"

\* C3: trilaterate with fewer than 3 access points raises InsufficientAnchors
\* to the caller; the minimizer does not run and no position is returned.
C3_TooFewAnchorsRaises ==
    (TriDone /\ Len(access_points) < 3)
    => (tri_ret.raised = "InsufficientAnchors" /\ tri_result = NoResult)

\* C6: a trilaterate call on 3 or more access points that ends without the
\* minimizer meeting its tolerance returns the best candidate together with a
\* status that flags the non-convergence.
C6_NonConvergenceFlagged ==
    (TriDone /\ Len(access_points) >= 3 /\ tri_result.success = FALSE)
    => (tri_ret.ret = PyArray(tri_result.x) /\ tri_ret.status = "not converged")

\* calculate_error was evaluated at a position [x, y, z]
Evaluated == evals > 0 /\ Len(position) = 3

\* the value at the position evaluated last
C8_Value ==
    Evaluated
    => LET n == Len(access_points)
           dist == [i \in 1..n |-> Distance(position, access_points[i])]
       IN  /\ IsFinite(error)
           /\ RLeq(Zero, error)
           /\ error = RSum([i \in 1..n |-> Sq(RSub(dist[i], access_points[i].radius))])
           /\ (error = Zero) <=> (\A i \in 1..n : dist[i] = access_points[i].radius)

\* an evaluation leaves the access points as they are, and one at the position
\* evaluated before gives the value it gave before
C8_Pure ==
    (evals' # evals)
    => /\ access_points' = access_points
       /\ (evals > 0 /\ position' = position) => error' = error

\* C8: at every position [x, y, z], calculate_error returns the sum over the
\* access points of (distance to the access point - its radius)^2, which is
\* >= 0 and is 0 only when every distance equals the radius; the call changes
\* no access point and repeated at one position gives one value.
C8_Residual == []C8_Value /\ [][C8_Pure]_vars

\* a second evaluation at a position exactly on the spheres of 2 or more access points
C8_Witness ==
    /\ Evaluated /\ evals >= 2
    /\ Len(access_points) >= 2
    /\ error = Zero

---------------------------------------------------------------------------
(* website.py: properties *)

Total(pt) == SumOver(pt, DOMAIN pt)

\* requests of a session that already had a previous page
C10_Counted ==
    Total(page_transitions)
       = SumOver(requests, Sessions) - Cardinality({ s \in Sessions : requests[s] > 0 })

\* what one request changes
C10_Request ==
    /\ (requests' = requests) => (page_transitions' = page_transitions /\ session' = session)
    /\ \A s \in Sessions :
          (requests'[s] # requests[s])
          => LET key == TransitionKey(session[s], session'[s])
                 keys == DOMAIN page_transitions \cup DOMAIN page_transitions'
             IN  /\ session'[s] \in Pages
                 /\ \A t \in Sessions \ {s} : session'[t] = session[t]
                 /\ IF session[s] = NoPage
                    THEN page_transitions' = page_transitions
                    ELSE /\ Count(page_transitions', key) = Count(page_transitions, key) + 1
                         /\ \A q \in keys \ {key} :
                               Count(page_transitions', q) = Count(page_transitions, q)

\* C10: after any interleaving of requests, each handled in one step, the
\* counts of page_transitions sum to the tracked requests minus the sessions
\* that made one; a tracked request of a session with a previous page
\* increments only the counter of (that session's previous page, the page
\* requested), and /stats changes no counter and no previous page.
C10_TransitionCount == []C10_Counted /\ [][C10_Request]_vars

\* two sessions interleaved, a transition counted twice, /stats served last
C10_Witness ==
    /\ \A s \in Sessions : requests[s] > 0
    /\ \E key \in DOMAIN page_transitions : page_transitions[key] >= 2
    /\ Total(page_transitions) >= 2
    /\ last_req = "/stats"

=============================================================================
